---- MODULE Spec2Model ----
(***************************************************************************)
(* modsec-log-review: the false-positive aggregator (FPFilter), its        *)
(* renderer (FPReviewer), the activity correlator (LogFilter) with its     *)
(* renderer (EntireLogReviewer), the issue classifier (IssueReviewer) and  *)
(* the reverse-lookup cache (nsLookup), run on Node's event loop: one      *)
(* macrotask at a time, the microtask queue drained in FIFO order between  *)
(* two macrotasks.                                                         *)
(*                                                                         *)
(* Rule ids, IP addresses, payloads and dates are natural numbers; only    *)
(* their equality (and for dates their order) is used by the code.         *)
(* Text the code renders is kept as the values put into it.                *)
(***************************************************************************)
EXTENDS Integers, Sequences, FiniteSets, TLC

VARIABLES
    ruleErrors,     \* IRuleError[] handed to the reviewers (parser output)
    normalLogs,     \* INormalLog[] handed to EntireLogReviewer
    doNSLookup,     \* the lookup flag handed to the reviewers
    rejectionMode,  \* what this Node build does on an unhandled rejection
    proc,           \* "running" | "exited"
    unhandled,      \* a promise was rejected with no handler in this drain
    collected,      \* nslookup.ts: the module-level cache Map
    dnsPending,     \* dns.reverse calls issued and not yet called back
    dnsCalls,       \* per IP, the number of dns.reverse calls issued so far
    answers,        \* per IP, the answers dns.reverse has given so far
    jobs,           \* the microtask queue
    fp,             \* the FPReviewer run (reviewFalsePositives)
    insp,           \* the EntireLogReviewer run (reviewEntireLog)
    modSecErrors,   \* IModSecError[] handed to IssueReviewer
    iss             \* the IssueReviewer run (reviewIssues)

vars == <<ruleErrors, normalLogs, doNSLookup, rejectionMode, proc, unhandled,
          collected, dnsPending, dnsCalls, answers, jobs, fp, insp,
          modSecErrors, iss>>

(***************************************************************************)
(* Bounds of the model.                                                    *)
(***************************************************************************)
\* Spec: at most this many rule-error records.
MaxErrors == 2
\* Spec: at most this many normal-log records.
MaxNormal == 1
\* SpecRank: at most this many records repeating an IP or a payload.
MaxRepeats == 1

(***************************************************************************)
(* JavaScript values.                                                      *)
(***************************************************************************)
Undefined == "<undefined>"
JSNull == "<null>"

\* x != undefined (loose): false for undefined and for null.
LooseNotUndefined(x) == x # Undefined /\ x # JSNull

\* ToBoolean of a string-or-undefined-or-null value.
Truthy(x) == x # Undefined /\ x # JSNull /\ x # ""

\* a += b on strings.
StrAppend(a, b) == IF a = "" THEN b ELSE IF b = "" THEN a ELSE a \o b

(***************************************************************************)
(* A JavaScript Map: its entries in insertion order.                       *)
(***************************************************************************)
MapHas(m, k) == \E i \in 1..Len(m) : m[i].k = k

MapIdx(m, k) == CHOOSE i \in 1..Len(m) : m[i].k = k

\* Map.prototype.get, for a key that is present.
MapGet(m, k) == m[MapIdx(m, k)].v

\* Map.prototype.set: a present key keeps its place.
MapSet(m, k, v) ==
    IF MapHas(m, k) THEN [m EXCEPT ![MapIdx(m, k)].v = v]
    ELSE Append(m, [k |-> k, v |-> v])

MapKeys(m) == [i \in 1..Len(m) |-> m[i].k]

MapValues(m) == [i \in 1..Len(m) |-> m[i].v]

\* Array.prototype.reverse.
Reverse(s) == [i \in 1..Len(s) |-> s[Len(s) + 1 - i]]

(***************************************************************************)
(* FPFilter: the false-positive aggregator.                                *)
(***************************************************************************)
\* class IP: constructor and collect.
IPNew(r) == [ip |-> r.ip, hits |-> 1, dataUsed |-> <<r.data>>]

\* IPCollect without the count of the re-occurrence.
IPCollectNoCount(e, r) == [e EXCEPT !.dataUsed = Append(@, r.data)]

IPCollect(e, r) == [e EXCEPT !.dataUsed = Append(@, r.data), !.hits = @ + 1]

\* class Data: constructor and collect.
DataNew(r) == [data |-> r.data, hits |-> 1, ipList |-> <<r.ip>>, date |-> r.date]

DataCollect(d, r) == [d EXCEPT !.ipList = Append(@, r.ip), !.hits = @ + 1]

\* OrganizedError.collect.
OrganizedErrorCollect(oe, r) ==
    [oe EXCEPT
        !.ipList = IF MapHas(@, r.ip)
                   THEN MapSet(@, r.ip, IPCollect(MapGet(@, r.ip), r))
                   ELSE MapSet(@, r.ip, IPNew(r)),
        !.dataUsed = IF MapHas(@, r.data)
                     THEN MapSet(@, r.data, DataCollect(MapGet(@, r.data), r))
                     ELSE MapSet(@, r.data, DataNew(r)),
        !.hits = @ + 1]

\* new OrganizedError(ruleError): hits starts at 1 and the constructor then
\* calls collect, which counts the same record again.
OrganizedErrorNew(r) ==
    OrganizedErrorCollect(
        [id |-> r.id, hits |-> 1, ipList |-> <<>>, dataUsed |-> <<>>], r)

\* The body of the constructor's forEach.
FPFilterEach(errors, r) ==
    IF MapHas(errors, r.id)
    THEN MapSet(errors, r.id, OrganizedErrorCollect(MapGet(errors, r.id), r))
    ELSE MapSet(errors, r.id, OrganizedErrorNew(r))

\* FPFilter with an errors Map that outlives the instance: the records are
\* collected into what the last review left.
FPFilterShared(errs) ==
    LET F[i \in 0..Len(errs)] ==
            IF i = 0 THEN fp.errors ELSE FPFilterEach(F[i - 1], errs[i])
    IN F[Len(errs)]

\* new FPFilter(ruleErrors).errors, for a non-empty array.
FPFilter(errs) ==
    LET F[i \in 0..Len(errs)] ==
            IF i = 0 THEN <<>> ELSE FPFilterEach(F[i - 1], errs[i])
    IN F[Len(errs)]

(***************************************************************************)
(* FPReviewer: rendering of the aggregate.                                 *)
(***************************************************************************)
\* reviewIP: sortedIPs.indexOf(ip) <= 9.
IPLastIndex == 9
\* reviewIP: ipList.size >= 10 announces "Top 10 of N".
IPHeaderMin == 10
\* reviewDataSent: sortedData.indexOf(data) <= 9.
DataLastIndex == 9
\* reviewDataSent: dataUsed.size >= 9 announces "10/N".
DataHeaderMin == 9

\* IPCompare with its operands swapped.
IPCompareSwapped(x, y) == y.hits - x.hits

\* The comparator of reviewIP: (x, y) => x.hits - y.hits.
IPCompare(x, y) == x.hits - y.hits

\* DataCompare with the comparison turned round.
DataCompareSwapped(x, y) == IF x.hits > y.hits THEN -1 ELSE 1

\* The comparator of reviewDataSent: (x, y) => (x.hits < y.hits ? -1 : 1).
DataCompare(x, y) == IF x.hits < y.hits THEN -1 ELSE 1

\* The comparator a sort call is given, by the name of the caller.
Compare(by, x, y) == IF by = "ip" THEN IPCompare(x, y) ELSE DataCompare(x, y)

\* Array.prototype.sort(cmp) on a short array: V8 extends the first run by
\* binary insertion, putting each element before the first one it compares
\* below (cmp < 0) and after all the others.
InsertSorted(by, sorted, x) ==
    LET below == {i \in 1..Len(sorted) : Compare(by, x, sorted[i]) < 0}
        pos == IF below = {} THEN Len(sorted) + 1
               ELSE CHOOSE i \in below : \A j \in below : i <= j
    IN [i \in 1..(Len(sorted) + 1) |->
            IF i < pos THEN sorted[i]
            ELSE IF i = pos THEN x ELSE sorted[i - 1]]

SortWith(by, s) ==
    LET F[i \in 0..Len(s)] ==
            IF i = 0 THEN <<>> ELSE InsertSorted(by, F[i - 1], s[i])
    IN F[Len(s)]

\* sortedIPs of reviewIP: sort(...).reverse().
SortedIPs(oe) == Reverse(SortWith("ip", MapValues(oe.ipList)))

\* sortedData of reviewDataSent.
SortedData(oe) == SortWith("data", MapValues(oe.dataUsed))

\* Reviewed with the maps of each group left in the order of the sorts, as
\* a sort of the maps' own entries would leave them.
ReviewedInPlace(errors) ==
    [g \in 1..Len(errors) |->
        [k |-> errors[g].k,
         v |-> [errors[g].v EXCEPT
                  !.ipList = [i \in 1..Len(@) |->
                                [k |-> SortedIPs(errors[g].v)[i].ip,
                                 v |-> SortedIPs(errors[g].v)[i]]],
                  !.dataUsed = [i \in 1..Len(@) |->
                                [k |-> SortedData(errors[g].v)[i].data,
                                 v |-> SortedData(errors[g].v)[i]]]]]]

\* The aggregate after reviewIP and reviewDataSent have run on every group:
\* both push the maps' values into a new array and sort that array, so the
\* maps and their entries are as they were.
Reviewed(errors) == errors

\* The rows a forEach with "indexOf(x) <= last" renders (indexOf is 0-based).
Shown(sorted, last) ==
    [i \in 1..(IF Len(sorted) <= last + 1 THEN Len(sorted) ELSE last + 1) |-> sorted[i]]

\* The hostname reviewIP prints for an IP; lc is this.lookupCollection.
ShownHostname(lc, ip) ==
    LET hostname == IF lc.defined
                    THEN (IF MapHas(lc.map, ip) THEN MapGet(lc.map, ip) ELSE Undefined)
                    ELSE "no-lookup"
    IN IF Truthy(hostname) THEN hostname ELSE "null"

\* reviewIP(ruleError): the header and the rows, top to bottom.
reviewIP(oe, lc) ==
    LET shown == Shown(SortedIPs(oe), IPLastIndex)
    IN [top |-> Len(oe.ipList) >= IPHeaderMin,
        n |-> Len(oe.ipList),
        rows |-> [i \in 1..Len(shown) |->
                    [hits |-> shown[i].hits, ip |-> shown[i].ip,
                     hostname |-> ShownHostname(lc, shown[i].ip)]]]

\* reviewDataSent(ruleError): the header and the rows, top to bottom.
reviewDataSent(oe) ==
    LET shown == Shown(SortedData(oe), DataLastIndex)
    IN [top |-> Len(oe.dataUsed) >= DataHeaderMin,
        n |-> Len(oe.dataUsed),
        rows |-> [i \in 1..Len(shown) |->
                    [hits |-> shown[i].hits, data |-> shown[i].data]]]

\* getOverview: one row per rule group, in the Map's order.
getOverview(errors) ==
    [g \in 1..Len(errors) |->
        [ips |-> Len(errors[g].v.ipList), hits |-> errors[g].v.hits,
         id |-> errors[g].v.id]]

\* getBreakdown, once this.lookupCollection is set: per rule group the IP
\* breakdown and the data breakdown.
getBreakdown(errors, lc) ==
    [g \in 1..Len(errors) |->
        [id |-> errors[g].v.id,
         ipBreakdown |-> reviewIP(errors[g].v, lc),
         dataBreakdown |-> reviewDataSent(errors[g].v)]]

\* The IPs recursiveLookup asks for: every IP of every rule group, in order.
LookupOrder(errors) ==
    LET F[g \in 0..Len(errors)] ==
            IF g = 0 THEN <<>> ELSE F[g - 1] \o MapKeys(errors[g].v.ipList)
    IN F[Len(errors)]

\* recursiveLookup's collection: lookups.forEach in the promises' order,
\* keeping the pairs whose ip and result are truthy.
LookupCollection(lookups) ==
    LET F[j \in 0..Len(lookups)] ==
            IF j = 0 THEN <<>>
            ELSE IF Truthy(lookups[j].value)
                 THEN MapSet(F[j - 1], lookups[j].ip, lookups[j].value)
                 ELSE F[j - 1]
    IN F[Len(lookups)]

(***************************************************************************)
(* LogFilter: the activity correlator.                                     *)
(***************************************************************************)
\* GatherEach without the else branch that writes "no-lookup".
GatherEachNoSentinel(ips, r, lookup) ==
    IF MapHas(ips, r.ip)
    THEN MapSet(ips, r.ip,
                [MapGet(ips, r.ip) EXCEPT !.brokenRules = Append(@, r)])
    ELSE MapSet(ips, r.ip,
                [brokenRules |-> <<r>>, allActivities |-> <<>>, ip |-> r.ip,
                 rejectedRequests |-> <<>>, useragent |-> "", nsLookup |-> ""])

\* GatherEach that leaves the profile of a known IP as it is.
GatherEachKeepFirst(ips, r, lookup) ==
    IF MapHas(ips, r.ip)
    THEN ips
    ELSE MapSet(ips, r.ip,
                [brokenRules |-> <<r>>, allActivities |-> <<>>, ip |-> r.ip,
                 rejectedRequests |-> <<>>, useragent |-> "",
                 nsLookup |-> IF lookup THEN "" ELSE StrAppend("", "no-lookup")])

\* gatherIPs, the forEach body without the lookup: a known IP gets the record
\* pushed, a new one gets a profile.
GatherEach(ips, r, lookup) ==
    IF MapHas(ips, r.ip)
    THEN MapSet(ips, r.ip,
                [MapGet(ips, r.ip) EXCEPT !.brokenRules = Append(@, r)])
    ELSE MapSet(ips, r.ip,
                [brokenRules |-> <<r>>, allActivities |-> <<>>, ip |-> r.ip,
                 rejectedRequests |-> <<>>, useragent |-> "",
                 nsLookup |-> IF lookup THEN "" ELSE StrAppend("", "no-lookup")])

\* The profiles gatherIPs builds synchronously.
GatherProfiles(errs, lookup) ==
    LET F[i \in 0..Len(errs)] ==
            IF i = 0 THEN <<>> ELSE GatherEach(F[i - 1], errs[i], lookup)
    IN F[Len(errs)]

\* NormalEach that makes a profile for an IP that has none.
NormalEachCreates(ips, n) ==
    LET p == IF MapHas(ips, n.ip) THEN MapGet(ips, n.ip)
             ELSE [brokenRules |-> <<>>, allActivities |-> <<>>, ip |-> n.ip,
                   rejectedRequests |-> <<>>, useragent |-> "", nsLookup |-> ""]
        p1 == IF n.statusCode # "200"
              THEN [p EXCEPT !.rejectedRequests = Append(@, n)] ELSE p
        p2 == IF p1.useragent = ""
              THEN [p1 EXCEPT !.useragent = n.useragent] ELSE p1
    IN MapSet(ips, n.ip, [p2 EXCEPT !.allActivities = Append(@, n)])

\* NormalEach that takes every request for a rejected one.
NormalEachAllRejected(ips, n) ==
    IF MapHas(ips, n.ip)
    THEN LET p == MapGet(ips, n.ip)
             p1 == [p EXCEPT !.rejectedRequests = Append(@, n)]
             p2 == IF p1.useragent = ""
                   THEN [p1 EXCEPT !.useragent = n.useragent] ELSE p1
         IN MapSet(ips, n.ip, [p2 EXCEPT !.allActivities = Append(@, n)])
    ELSE ips

\* NormalEach that takes the user-agent of every request.
NormalEachLastAgent(ips, n) ==
    IF MapHas(ips, n.ip)
    THEN LET p == MapGet(ips, n.ip)
             p1 == IF n.statusCode # "200"
                   THEN [p EXCEPT !.rejectedRequests = Append(@, n)] ELSE p
             p2 == [p1 EXCEPT !.useragent = n.useragent]
         IN MapSet(ips, n.ip, [p2 EXCEPT !.allActivities = Append(@, n)])
    ELSE ips

\* filterNormalLogs, the forEach body.
NormalEach(ips, n) ==
    IF MapHas(ips, n.ip)
    THEN LET p == MapGet(ips, n.ip)
             p1 == IF n.statusCode # "200"
                   THEN [p EXCEPT !.rejectedRequests = Append(@, n)] ELSE p
             p2 == IF p1.useragent = ""
                   THEN [p1 EXCEPT !.useragent = n.useragent] ELSE p1
         IN MapSet(ips, n.ip, [p2 EXCEPT !.allActivities = Append(@, n)])
    ELSE ips

filterNormalLogs(ips, logs) ==
    LET F[i \in 0..Len(logs)] ==
            IF i = 0 THEN ips ELSE NormalEach(F[i - 1], logs[i])
    IN F[Len(logs)]

\* ErrorEach that pushes the profile whether or not the rule has it.
ErrorEachNoFind(errors, ips, r) ==
    IF MapHas(errors, r.id) /\ MapHas(ips, r.ip)
    THEN LET rec == MapGet(errors, r.id)
         IN MapSet(errors, r.id, [rec EXCEPT !.ips = Append(@, r.ip)])
    ELSE IF ~MapHas(errors, r.id) /\ MapHas(ips, r.ip)
         THEN MapSet(errors, r.id, [id |-> r.id, ips |-> <<r.ip>>])
         ELSE errors

\* ErrorEach that leaves a rule it knows as it is.
ErrorEachFirstIP(errors, ips, r) ==
    IF ~MapHas(errors, r.id) /\ MapHas(ips, r.ip)
    THEN MapSet(errors, r.id, [id |-> r.id, ips |-> <<r.ip>>])
    ELSE errors

\* filterErrorLogs, the forEach body; a rule's ips array holds references to
\* the profiles, kept here as their keys in the ips Map.
ErrorEach(errors, ips, r) ==
    IF MapHas(errors, r.id) /\ MapHas(ips, r.ip)
    THEN LET rec == MapGet(errors, r.id)
         IN IF \E i \in 1..Len(rec.ips) : rec.ips[i] = r.ip
            THEN errors
            ELSE MapSet(errors, r.id, [rec EXCEPT !.ips = Append(@, r.ip)])
    ELSE IF ~MapHas(errors, r.id) /\ MapHas(ips, r.ip)
         THEN MapSet(errors, r.id, [id |-> r.id, ips |-> <<r.ip>>])
         ELSE errors

filterErrorLogs(ips, errs) ==
    LET F[i \in 0..Len(errs)] ==
            IF i = 0 THEN <<>> ELSE ErrorEach(F[i - 1], ips, errs[i])
    IN F[Len(errs)]

\* getBreakdown: i <= 9 lets the first ten broken-rule records through.
RuleLastIndex == 9

\* fixDate: day and month are swapped and the text from the "+" of the zone
\* on is cut off, so the Date is the clock reading of the record.
fixDate(date) == date.clock

\* getBreakdown with both ends of the window left out.
getBreakdownOpenWindow(p, id) ==
    LET own == SelectSeq(p.brokenRules, LAMBDA x : x.id = id)
    IN [top10Data |->
            [i \in 1..Len(Shown(own, RuleLastIndex)) |->
                [date |-> own[i].date, data |-> own[i].data]],
        rejects |->
            LET in == SelectSeq(p.rejectedRequests,
                        LAMBDA rj : /\ own # <<>>
                                    /\ fixDate(rj.date) < own[Len(own)].date
                                    /\ fixDate(rj.date) > own[1].date)
            IN [i \in 1..Len(in) |->
                    [date |-> fixDate(in[i].date),
                     statusCode |-> in[i].statusCode]]]

\* getBreakdown whose window ends at the last record that was rendered.
getBreakdownRenderedWindow(p, id) ==
    LET own == SelectSeq(p.brokenRules, LAMBDA x : x.id = id)
        shown == Shown(own, RuleLastIndex)
    IN [top10Data |->
            [i \in 1..Len(shown) |->
                [date |-> own[i].date, data |-> own[i].data]],
        rejects |->
            LET in == SelectSeq(p.rejectedRequests,
                        LAMBDA rj : /\ own # <<>>
                                    /\ fixDate(rj.date) <= shown[Len(shown)].date
                                    /\ fixDate(rj.date) >= own[1].date)
            IN [i \in 1..Len(in) |->
                    [date |-> fixDate(in[i].date),
                     statusCode |-> in[i].statusCode]]]

\* EntireLogReviewer.getBreakdown(ip, id): the profile's records of the rule,
\* the first ten rendered, the first and the last giving the window; then
\* the rejected requests with first <= date <= last. A Date compares by its
\* instant; with no record of the rule first and last stay undefined and
\* every comparison is false.
getBreakdownOfIP(p, id) ==
    LET own == SelectSeq(p.brokenRules, LAMBDA x : x.id = id)
    IN [top10Data |->
            [i \in 1..Len(Shown(own, RuleLastIndex)) |->
                [date |-> own[i].date, data |-> own[i].data]],
        rejects |->
            LET in == SelectSeq(p.rejectedRequests,
                        LAMBDA rj : /\ own # <<>>
                                    /\ fixDate(rj.date) <= own[Len(own)].date
                                    /\ fixDate(rj.date) >= own[1].date)
            IN [i \in 1..Len(in) |->
                    [date |-> fixDate(in[i].date),
                     statusCode |-> in[i].statusCode]]]

\* EntireLogReviewer.getReview after the await: per rule, per IP, the header
\* (getHeader) read from the profile at that moment, and the breakdown.
RenderInspection(filtered, ips) ==
    [g \in 1..Len(filtered) |->
        [id |-> filtered[g].k,
         n |-> Len(filtered[g].v.ips),
         ips |-> [i \in 1..Len(filtered[g].v.ips) |->
                    LET p == MapGet(ips, filtered[g].v.ips[i])
                    IN [ip |-> p.ip, nsLookup |-> p.nsLookup,
                        useragent |-> p.useragent,
                        breakdown |-> getBreakdownOfIP(p, filtered[g].k)]]]]

\* The IPs gatherIPs looks up: each new IP once, in input order.
GatherOrder(errs) == MapKeys(GatherProfiles(errs, TRUE))

(***************************************************************************)
(* IssueReviewer: the issue classifier and its report.                     *)
(***************************************************************************)
\* filtered.hostname.length <= 0, for a hostname that is a string.
EmptyString(x) == x = ""

\* IssueFilterEach that puts a new issue in front of the others.
IssueFilterEachUnshift(filtered, error) ==
    IF error.type # "rule"
    THEN [filtered EXCEPT !.issues = <<error>> \o @]
    ELSE IF EmptyString(filtered.hostname) /\ Truthy(error.hostname)
         THEN [filtered EXCEPT !.hostname = error.hostname]
         ELSE filtered

\* IssueFilterEach that takes the hostname of every rule error that has one.
IssueFilterEachLastHost(filtered, error) ==
    IF error.type # "rule"
    THEN [filtered EXCEPT !.issues = Append(@, error)]
    ELSE IF Truthy(error.hostname)
         THEN [filtered EXCEPT !.hostname = error.hostname]
         ELSE filtered

\* IssueReviewer.filter, the forEach body.
IssueFilterEach(filtered, error) ==
    IF error.type # "rule"
    THEN [filtered EXCEPT !.issues = Append(@, error)]
    ELSE IF EmptyString(filtered.hostname) /\ Truthy(error.hostname)
         THEN [filtered EXCEPT !.hostname = error.hostname]
         ELSE filtered

\* IssueReviewer.filter.
IssueReviewerFilter(errors) ==
    LET F[i \in 0..Len(errors)] ==
            IF i = 0 THEN [issues |-> <<>>, hostname |-> ""]
            ELSE IssueFilterEach(F[i - 1], errors[i])
    IN F[Len(errors)]

\* IssueReviewer.getReview: the header and one line per issue.
IssueReviewerGetReview(filtered) ==
    [n |-> Len(filtered.issues), hostname |-> filtered.hostname,
     lines |-> [i \in 1..Len(filtered.issues) |->
                    [date |-> filtered.issues[i].date,
                     type |-> filtered.issues[i].type,
                     msg |-> filtered.issues[i].msg]]]

(***************************************************************************)
(* nslookup.ts: the reverse-lookup cache.                                  *)
(***************************************************************************)
\* The PTR name dns.reverse answers with for an IP, when it answers.
HostOf(ip) == IF ip = 1 THEN "h1" ELSE "h2"

\* collected.get(ip); collected is kept as its set of <<key, value>> pairs.
CacheGet(ip) ==
    IF \E e \in collected : e[1] = ip
    THEN (CHOOSE e \in collected : e[1] = ip)[2]
    ELSE Undefined

\* collected.set(ip, v).
CacheSet(ip, v) == {e \in collected : e[1] # ip} \cup {<<ip, v>>}

\* nsLookup(ip), the executor: the promise it returns as it is when the call
\* returns. A cached result resolves it at once; otherwise dns.reverse is
\* issued and the promise is pending.
NsLookupCall(ip) ==
    LET result == CacheGet(ip)
    IN IF LooseNotUndefined(result)
       THEN [ip |-> ip, state |-> "fulfilled", value |-> result]
       ELSE [ip |-> ip, state |-> "pending", value |-> Undefined]

\* The promises a loop of nsLookup calls returns, one per IP of order.
NsLookupAll(order) == [k \in 1..Len(order) |-> NsLookupCall(order[k])]

\* Indices of the promises in the given state, ascending.
Indices(lk, st) ==
    SelectSeq([k \in 1..Len(lk) |-> k], LAMBDA k : lk[k].state = st)

\* The dns.reverse calls these promises wait for.
Issued(run, lk) ==
    {[run |-> run, k |-> k, ip |-> lk[k].ip] :
        k \in {j \in 1..Len(lk) : lk[j].state = "pending"}}

IssuedLog(lk) ==
    LET pend == Indices(lk, "pending")
    IN [i \in 1..Len(pend) |-> lk[pend[i]].ip]

\* Number of dns.reverse calls issued for ip so far.
CallsFor(ip) == Cardinality({i \in 1..Len(dnsCalls) : dnsCalls[i] = ip})

Job(run, type, k) == [run |-> run, type |-> type, k |-> k]

JobsFor(run, type, ks) == [i \in 1..Len(ks) |-> Job(run, type, ks[i])]

(***************************************************************************)
(* The event loop.                                                         *)
(***************************************************************************)
Running == proc = "running"

\* The loop takes the next macrotask: no microtask is left, and an
\* unhandled rejection of the last drain has been dealt with.
Idle == Running /\ jobs = <<>> /\ ~unhandled

\* The microtask at the head of the queue.
HeadIs(run, type) ==
    /\ Running /\ jobs # <<>>
    /\ Head(jobs).run = run /\ Head(jobs).type = type

InputVars == <<ruleErrors, normalLogs, doNSLookup, rejectionMode>>
IssueVars == <<modSecErrors, iss>>
DnsVars == <<collected, dnsPending, dnsCalls, answers>>

FpInit ==
    [pc |-> "idle", error |-> "", errors |-> <<>>, lookups |-> <<>>,
     remaining |-> 0,
     lookupCollection |-> [defined |-> FALSE, map |-> <<>>],
     overview |-> <<>>, breakdown |-> <<>>, reordered |-> FALSE,
     reviews |-> <<>>]

InspInit ==
    [pc |-> "idle", ips |-> <<>>, lookups |-> <<>>, remaining |-> 0,
     allState |-> "pending", filtered |-> <<>>, report |-> <<>>,
     reordered |-> FALSE, reviews |-> <<>>]

IssInit ==
    [pc |-> "idle", filtered |-> [issues |-> <<>>, hostname |-> ""],
     review |-> [n |-> 0, hostname |-> "", lines |-> <<>>],
     reviews |-> <<>>]

InitCommon ==
    /\ ruleErrors = <<>> /\ normalLogs = <<>>
    /\ modSecErrors = <<>> /\ iss = IssInit
    /\ proc = "running" /\ unhandled = FALSE
    /\ collected = {} /\ dnsPending = {} /\ dnsCalls = <<>> /\ answers = {}
    /\ jobs = <<>> /\ fp = FpInit /\ insp = InspInit

Init ==
    /\ InitCommon
    /\ doNSLookup \in BOOLEAN
    /\ rejectionMode \in {"warn", "throw"}

(***************************************************************************)
(* The input arrays, as the parsers hand them over before a review starts. *)
(***************************************************************************)
RuleIds == {1, 2}
IPs == {1, 2}
RuleErrorRecords == [id : RuleIds, ip : IPs, data : {1}, date : {1}]
NormalLogRecords ==
    [ip : IPs, statusCode : {"403"}, useragent : {"ua"},
     date : {[clock |-> 1, zone |-> "+0000"]}]

NotStarted ==
    /\ fp.pc = "idle" /\ insp.pc = "idle"
    /\ fp.reviews = <<>> /\ insp.reviews = <<>>

ParseRuleError(r) ==
    /\ Idle /\ NotStarted
    /\ Len(ruleErrors) < MaxErrors
    /\ ruleErrors' = Append(ruleErrors, r)
    /\ UNCHANGED <<IssueVars, normalLogs, doNSLookup, rejectionMode, proc, unhandled,
                   collected, dnsPending, dnsCalls, answers, jobs, fp, insp>>

\* The same, with no bound on the array's length.
ParseRuleErrorWide(r) ==
    /\ Idle /\ NotStarted
    /\ ruleErrors' = Append(ruleErrors, r)
    /\ UNCHANGED <<IssueVars, normalLogs, doNSLookup, rejectionMode, proc, unhandled,
                   collected, dnsPending, dnsCalls, answers, jobs, fp, insp>>

ParseNormalLog(n) ==
    /\ Idle /\ NotStarted
    /\ Len(normalLogs) < MaxNormal
    /\ normalLogs' = Append(normalLogs, n)
    /\ UNCHANGED <<IssueVars, ruleErrors, doNSLookup, rejectionMode, proc, unhandled,
                   collected, dnsPending, dnsCalls, answers, jobs, fp, insp>>

(***************************************************************************)
(* dns.reverse calls back (a macrotask).                                   *)
(***************************************************************************)
\* Call c is answered while an earlier call of the same run still waits.
Overtakes(c) == \E d \in dnsPending : d.run = c.run /\ d.k < c.k

\* The promise of call c settles; its reactions are queued in the order the
\* code registered them. (reordered only records that a call overtook.)
Settle(c, st, v) ==
    /\ IF c.run = "fp"
       THEN /\ fp' = [fp EXCEPT !.lookups[c.k].state = st, !.lookups[c.k].value = v,
                                !.reordered = @ \/ Overtakes(c)]
            /\ jobs' = <<Job("fp", "awaitLookup", c.k)>>
            /\ UNCHANGED insp
       ELSE /\ insp' = [insp EXCEPT !.lookups[c.k].state = st, !.lookups[c.k].value = v,
                                  !.reordered = @ \/ Overtakes(c)]
            /\ jobs' = <<Job("insp", "thenSet", c.k), Job("insp", "allElem", c.k)>>
            /\ UNCHANGED fp

\* if (err) { collected.set(ip, null); reject(null) }
DnsError(c) ==
    /\ Idle /\ c \in dnsPending
    /\ dnsPending' = dnsPending \ {c}
    /\ answers' = answers \cup {<<c.ip, "err">>}
    /\ collected' = CacheSet(c.ip, JSNull)
    /\ Settle(c, "rejected", JSNull)
    /\ UNCHANGED <<IssueVars, InputVars, proc, unhandled, dnsCalls>>

\* else if (hostname) { collected.set(ip, hostname[0]); resolve(hostname[0]) }
DnsSuccess(c) ==
    /\ Idle /\ c \in dnsPending
    /\ dnsPending' = dnsPending \ {c}
    /\ answers' = answers \cup {<<c.ip, HostOf(c.ip)>>}
    /\ collected' = CacheSet(c.ip, HostOf(c.ip))
    /\ Settle(c, "fulfilled", HostOf(c.ip))
    /\ UNCHANGED <<IssueVars, InputVars, proc, unhandled, dnsCalls>>

\* After a drain that left a rejected promise without a handler, Node either
\* warns and goes on or throws and ends the process, by build and flags.
RejectionWarns ==
    /\ Running /\ jobs = <<>> /\ unhandled /\ rejectionMode = "warn"
    /\ unhandled' = FALSE
    /\ UNCHANGED <<IssueVars, InputVars, DnsVars, proc, jobs, fp, insp>>

RejectionThrows ==
    /\ Running /\ jobs = <<>> /\ unhandled /\ rejectionMode = "throw"
    /\ proc' = "exited"
    /\ UNCHANGED <<IssueVars, InputVars, DnsVars, unhandled, jobs, fp, insp>>

(***************************************************************************)
(* reviewEntireLog: EntireLogReviewer.getReview over LogFilter.filter.     *)
(***************************************************************************)
\* The synchronous part, up to "await this.gatherIPs()": gatherIPs builds the
\* profiles and calls nsLookup for each new IP; result.then(...) and then
\* Promise.all(lookups).then(...) register their reactions, which are queued
\* at once on promises that are already resolved.
StartInspect ==
    /\ Idle /\ insp.pc = "idle"
    /\ LET lk == IF doNSLookup THEN NsLookupAll(GatherOrder(ruleErrors)) ELSE <<>>
           hit == Indices(lk, "fulfilled")
       IN /\ insp' = [insp EXCEPT
                        !.pc = "gathering",
                        !.ips = GatherProfiles(ruleErrors, doNSLookup),
                        !.lookups = lk,
                        !.remaining = Len(lk),
                        !.allState = IF Len(lk) = 0 THEN "fulfilled" ELSE "pending"]
          /\ jobs' = JobsFor("insp", "thenSet", hit)
                        \o JobsFor("insp", "allElem", hit)
                        \o (IF Len(lk) = 0 THEN <<Job("insp", "allThen", 0)>> ELSE <<>>)
          /\ dnsPending' = dnsPending \cup Issued("insp", lk)
          /\ dnsCalls' = dnsCalls \o IssuedLog(lk)
    /\ UNCHANGED <<IssueVars, InputVars, proc, unhandled, collected, answers, fp>>

\* result.then((hostname) => { newIP.nsLookup += hostname }): no rejection
\* handler, so a rejected lookup rejects the derived promise, unhandled.
InspThenSet ==
    /\ HeadIs("insp", "thenSet")
    /\ LET l == insp.lookups[Head(jobs).k]
       IN IF l.state = "fulfilled"
          THEN /\ insp' = [insp EXCEPT !.ips =
                            MapSet(@, l.ip, [MapGet(@, l.ip) EXCEPT
                                        !.nsLookup = StrAppend(@, l.value)])]
               /\ UNCHANGED unhandled
          ELSE /\ unhandled' = TRUE
               /\ UNCHANGED insp
    /\ jobs' = Tail(jobs)
    /\ UNCHANGED <<IssueVars, InputVars, DnsVars, proc, fp>>

\* InspAllElem with a join that resolves on the first fulfilled lookup
\* (Promise.race in place of Promise.all).
InspAllElemFirst ==
    /\ HeadIs("insp", "allElem")
    /\ LET l == insp.lookups[Head(jobs).k]
       IN IF l.state = "fulfilled"
          THEN /\ insp' = [insp EXCEPT
                            !.remaining = @ - 1,
                            !.allState = IF @ = "pending" THEN "fulfilled" ELSE @]
               /\ jobs' = Tail(jobs) \o
                            (IF insp.allState = "pending"
                             THEN <<Job("insp", "allThen", 0)>> ELSE <<>>)
               /\ UNCHANGED unhandled
          ELSE /\ insp' = [insp EXCEPT !.allState =
                            IF @ = "pending" THEN "rejected" ELSE @]
               /\ jobs' = Tail(jobs)
               /\ unhandled' = TRUE
    /\ UNCHANGED <<IssueVars, InputVars, DnsVars, proc, fp>>

\* Promise.all's reaction on one lookup: the last one to be fulfilled
\* fulfils the joint promise, the first one to be rejected rejects it, and
\* then(() => resolve(ips)) has no rejection handler.
InspAllElem ==
    /\ HeadIs("insp", "allElem")
    /\ LET l == insp.lookups[Head(jobs).k]
       IN IF l.state = "fulfilled"
          THEN /\ insp' = [insp EXCEPT
                            !.remaining = @ - 1,
                            !.allState = IF insp.remaining = 1 /\ @ = "pending"
                                         THEN "fulfilled" ELSE @]
               /\ jobs' = Tail(jobs) \o
                            (IF insp.remaining = 1 /\ insp.allState = "pending"
                             THEN <<Job("insp", "allThen", 0)>> ELSE <<>>)
               /\ UNCHANGED unhandled
          ELSE /\ insp' = [insp EXCEPT !.allState =
                            IF @ = "pending" THEN "rejected" ELSE @]
               /\ jobs' = Tail(jobs)
               /\ unhandled' = TRUE
    /\ UNCHANGED <<IssueVars, InputVars, DnsVars, proc, fp>>

\* Promise.all(lookups).then(() => resolve(ips)): gatherIPs' promise
\* resolves and filter's await continues in the next microtask.
InspAllThen ==
    /\ HeadIs("insp", "allThen")
    /\ insp' = [insp EXCEPT !.pc = "gathered"]
    /\ jobs' = Tail(jobs) \o <<Job("insp", "filterCont", 0)>>
    /\ UNCHANGED <<IssueVars, InputVars, DnsVars, proc, unhandled, fp>>

\* filter() after the await: filterNormalLogs, filterErrorLogs, resolve.
InspFilterCont ==
    /\ HeadIs("insp", "filterCont")
    /\ LET ips2 == filterNormalLogs(insp.ips, normalLogs)
       IN insp' = [insp EXCEPT !.pc = "filtered", !.ips = ips2,
                               !.filtered = filterErrorLogs(ips2, ruleErrors)]
    /\ jobs' = Tail(jobs) \o <<Job("insp", "reviewCont", 0)>>
    /\ UNCHANGED <<IssueVars, InputVars, DnsVars, proc, unhandled, fp>>

\* getReview after "await filter.filter()": the report is rendered.
InspReviewCont ==
    /\ HeadIs("insp", "reviewCont")
    /\ insp' = [insp EXCEPT !.pc = "done",
                            !.report = RenderInspection(insp.filtered, insp.ips)]
    /\ jobs' = Tail(jobs)
    /\ UNCHANGED <<IssueVars, InputVars, DnsVars, proc, unhandled, fp>>

(***************************************************************************)
(* reviewFalsePositives: new FPReviewer(...).getReview().                  *)
(***************************************************************************)
\* The constructor and getReview up to "await this.getOverview()". On an
\* empty array ruleErrors[0].hostname throws a TypeError to the caller.
StartFP ==
    /\ Idle /\ fp.pc = "idle"
    /\ IF ruleErrors = <<>>
       THEN /\ fp' = [fp EXCEPT !.pc = "threw", !.error = "TypeError"]
            /\ UNCHANGED jobs
       ELSE /\ fp' = [fp EXCEPT !.pc = "overview",
                                !.errors = FPFilter(ruleErrors),
                                !.overview = getOverview(FPFilter(ruleErrors))]
            /\ jobs' = <<Job("fp", "getBreakdown", 0)>>
    /\ UNCHANGED <<IssueVars, InputVars, DnsVars, proc, unhandled, insp>>

\* getBreakdown up to its await. With lookups, recursiveLookup wraps each
\* nsLookup(ip.ip) in new Promise(async (resolve) => resolve([ip, await ...]))
\* and joins the wrappers with Promise.all; without, the breakdown is
\* rendered at once.
FPGetBreakdown ==
    /\ HeadIs("fp", "getBreakdown")
    /\ IF doNSLookup
       THEN LET lk == NsLookupAll(LookupOrder(fp.errors))
            IN /\ fp' = [fp EXCEPT !.pc = "lookups", !.lookups = lk,
                                   !.remaining = Len(lk)]
               /\ jobs' = Tail(jobs) \o
                            JobsFor("fp", "awaitLookup", Indices(lk, "fulfilled"))
               /\ dnsPending' = dnsPending \cup Issued("fp", lk)
               /\ dnsCalls' = dnsCalls \o IssuedLog(lk)
       ELSE /\ fp' = [fp EXCEPT
                        !.pc = "breakdown",
                        !.errors = Reviewed(fp.errors),
                        !.lookupCollection = [defined |-> FALSE, map |-> <<>>],
                        !.breakdown = getBreakdown(fp.errors,
                                        [defined |-> FALSE, map |-> <<>>])]
            /\ jobs' = Tail(jobs) \o <<Job("fp", "reviewDone", 0)>>
            /\ UNCHANGED <<dnsPending, dnsCalls>>
    /\ UNCHANGED <<IssueVars, InputVars, proc, unhandled, collected, answers, insp>>

\* FPAwaitLookup with a join that resolves on the first resolved wrapper
\* (Promise.race in place of Promise.all).
FPAwaitLookupFirst ==
    /\ HeadIs("fp", "awaitLookup")
    /\ IF fp.lookups[Head(jobs).k].state = "fulfilled"
       THEN /\ fp' = [fp EXCEPT !.remaining = @ - 1]
            /\ jobs' = Tail(jobs) \o
                        (IF fp.remaining = Len(fp.lookups)
                         THEN <<Job("fp", "allThen", 0)>> ELSE <<>>)
            /\ UNCHANGED unhandled
       ELSE /\ unhandled' = TRUE
            /\ jobs' = Tail(jobs)
            /\ UNCHANGED fp
    /\ UNCHANGED <<IssueVars, InputVars, DnsVars, proc, insp>>

\* The async executor after "await nsLookup(ip.ip)": a fulfilled lookup
\* resolves the wrapper, which Promise.all counts; a rejected one throws
\* inside the executor, whose own promise nobody handles, and the wrapper
\* is never resolved.
FPAwaitLookup ==
    /\ HeadIs("fp", "awaitLookup")
    /\ IF fp.lookups[Head(jobs).k].state = "fulfilled"
       THEN /\ fp' = [fp EXCEPT !.remaining = @ - 1]
            /\ jobs' = Tail(jobs) \o
                        (IF fp.remaining = 1 THEN <<Job("fp", "allThen", 0)>> ELSE <<>>)
            /\ UNCHANGED unhandled
       ELSE /\ unhandled' = TRUE
            /\ jobs' = Tail(jobs)
            /\ UNCHANGED fp
    /\ UNCHANGED <<IssueVars, InputVars, DnsVars, proc, insp>>

\* Promise.all(promises).then(...): the collection is built and
\* recursiveLookup's promise resolves.
FPAllThen ==
    /\ HeadIs("fp", "allThen")
    /\ fp' = [fp EXCEPT !.lookupCollection =
                [defined |-> TRUE, map |-> LookupCollection(fp.lookups)]]
    /\ jobs' = Tail(jobs) \o <<Job("fp", "breakdownCont", 0)>>
    /\ UNCHANGED <<IssueVars, InputVars, DnsVars, proc, unhandled, insp>>

\* getBreakdown after its await: the breakdown is rendered.
FPBreakdownCont ==
    /\ HeadIs("fp", "breakdownCont")
    /\ fp' = [fp EXCEPT !.pc = "breakdown",
                        !.errors = Reviewed(fp.errors),
                        !.breakdown = getBreakdown(fp.errors, fp.lookupCollection)]
    /\ jobs' = Tail(jobs) \o <<Job("fp", "reviewDone", 0)>>
    /\ UNCHANGED <<IssueVars, InputVars, DnsVars, proc, unhandled, insp>>

\* getReview after "await this.getBreakdown()": the review is returned.
FPReviewDone ==
    /\ HeadIs("fp", "reviewDone")
    /\ fp' = [fp EXCEPT !.pc = "done"]
    /\ jobs' = Tail(jobs)
    /\ UNCHANGED <<IssueVars, InputVars, DnsVars, proc, unhandled, insp>>

(***************************************************************************)
(* Specifications.                                                         *)
(***************************************************************************)
Microtask ==
    \/ InspThenSet \/ InspAllElem \/ InspAllThen \/ InspFilterCont
    \/ InspReviewCont
    \/ FPGetBreakdown \/ FPAwaitLookup \/ FPAllThen \/ FPBreakdownCont
    \/ FPReviewDone

Next ==
    \/ \E r \in RuleErrorRecords : ParseRuleError(r)
    \/ \E n \in NormalLogRecords : ParseNormalLog(n)
    \/ StartInspect
    \/ StartFP
    \/ \E c \in dnsPending : DnsError(c)
    \/ \E c \in dnsPending : DnsSuccess(c)
    \/ RejectionWarns
    \/ RejectionThrows
    \/ Microtask

\* The event loop runs every task that is ready, and dns.reverse calls back
\* on every call: nothing that can happen is put off forever.
Spec == Init /\ [][Next]_vars /\ WF_vars(Next)

(***************************************************************************)
(* SpecRank: reviewFalsePositives without lookups on wide inputs, where a  *)
(* rule group has more distinct IPs and payloads than a breakdown shows.   *)
(* New IPs and payloads are numbered in order of first appearance.         *)
(***************************************************************************)
\* New IPs and payloads are numbered 1, 2, ... as they appear, so the
\* numbers seen so far are 1..NumIPs and 1..NumData.
Max(S) == IF S = {} THEN 0 ELSE CHOOSE x \in S : \A y \in S : y <= x
NumIPs == Max({ruleErrors[i].ip : i \in 1..Len(ruleErrors)})
NumData == Max({ruleErrors[i].data : i \in 1..Len(ruleErrors)})

\* Each record brings a new IP, a new payload or both: the records that
\* brought only one of them repeat the other.
RepeatCount == 2 * Len(ruleErrors) - NumIPs - NumData

\* One more record than a breakdown has rows brings both a new IP and a new
\* payload, so that either list can outgrow the window.
MaxFresh == IPLastIndex + 2

\* A record of rule 1 with an IP and a payload not seen before.
ParseFresh ==
    /\ Len(ruleErrors) - RepeatCount < MaxFresh
    /\ ParseRuleErrorWide([id |-> 1, ip |-> NumIPs + 1,
                           data |-> NumData + 1, date |-> 1])

\* A record of rule 1 that repeats a seen IP with a new payload.
ParseRepeatIP(ip) ==
    /\ RepeatCount < MaxRepeats
    /\ ip \in 1..NumIPs
    /\ ParseRuleErrorWide([id |-> 1, ip |-> ip, data |-> NumData + 1, date |-> 1])

\* A record of rule 1 that repeats a seen payload from a new IP.
ParseRepeatData(data) ==
    /\ RepeatCount < MaxRepeats
    /\ data \in 1..NumData
    /\ ParseRuleErrorWide([id |-> 1, ip |-> NumIPs + 1, data |-> data, date |-> 1])

InitRank ==
    /\ InitCommon
    /\ doNSLookup = FALSE
    /\ rejectionMode = "warn"

NextRank ==
    \/ ParseFresh
    \/ \E ip \in 1..NumIPs : ParseRepeatIP(ip)
    \/ \E data \in 1..NumData : ParseRepeatData(data)
    \/ StartFP
    \/ FPGetBreakdown
    \/ FPReviewDone

SpecRank == InitRank /\ [][NextRank]_vars /\ WF_vars(NextRank)

(***************************************************************************)
(* Properties.                                                             *)
(***************************************************************************)
\* The FPFilter aggregate exists.
Aggregated == fp.pc \notin {"idle", "threw"}

\* The false-positive breakdown has been rendered.
Rendered == fp.pc \in {"breakdown", "done"}

\* Indices of the input records of a rule, and of a rule and an IP.
RecordsOf(id) == {i \in 1..Len(ruleErrors) : ruleErrors[i].id = id}
RecordsOfIP(id, ip) == {i \in RecordsOf(id) : ruleErrors[i].ip = ip}
FirstOf(S) == CHOOSE i \in S : \A j \in S : i <= j

Min(a, b) == IF a <= b THEN a ELSE b

\* C1: each rule group's hit count equals the number of input records with
\* that rule id (so the hit counts add up to the number of records).
C1_GroupHitsCountRecords ==
    Aggregated =>
        \A g \in 1..Len(fp.errors) :
            fp.errors[g].v.hits = Cardinality(RecordsOf(fp.errors[g].k))

\* C8: the IP rows of a rule group are in non-increasing order of hit count,
\* there are min(10, number of distinct IPs) of them, they are distinct IPs of
\* the group with their hit counts, and no IP left out has more hits than a
\* rendered one.
C8_IPRanking ==
    Rendered =>
        \A g \in 1..Len(fp.errors) :
            LET ipList == fp.errors[g].v.ipList
                rows == fp.breakdown[g].ipBreakdown.rows
                shown == {rows[i].ip : i \in 1..Len(rows)}
            IN /\ Len(rows) = Min(10, Len(ipList))
               /\ \A i, j \in 1..Len(rows) :
                    i < j => rows[i].hits >= rows[j].hits /\ rows[i].ip # rows[j].ip
               /\ \A i \in 1..Len(rows) :
                    /\ MapHas(ipList, rows[i].ip)
                    /\ rows[i].hits = MapGet(ipList, rows[i].ip).hits
               /\ \A e \in 1..Len(ipList) :
                    ipList[e].k \notin shown =>
                        \A i \in 1..Len(rows) : rows[i].hits >= ipList[e].v.hits

\* A rendered group with more than 10 IPs whose first row has more hits than
\* its last one.
C8_Witness ==
    /\ Rendered
    /\ \E g \in 1..Len(fp.errors) :
        LET rows == fp.breakdown[g].ipBreakdown.rows
        IN /\ Len(fp.errors[g].v.ipList) > 10
           /\ rows[1].hits > rows[Len(rows)].hits

\* C9: two IP rows of a rule group with equal hit counts are in input order:
\* the IP whose first record comes earlier is rendered first.
C9_TiesInInputOrder ==
    Rendered =>
        \A g \in 1..Len(fp.errors) :
            LET rows == fp.breakdown[g].ipBreakdown.rows
                id == fp.errors[g].k
            IN \A i, j \in 1..Len(rows) :
                (i < j /\ rows[i].hits = rows[j].hits) =>
                    FirstOf(RecordsOfIP(id, rows[i].ip))
                        < FirstOf(RecordsOfIP(id, rows[j].ip))

Drained == jobs = <<>> /\ ~unhandled

Settled(lk) == \A k \in 1..Len(lk) : lk[k].state # "pending"

\* C2: with lookups on, once every reverse lookup filter() issued has
\* settled, by success or by failure, and the microtasks have run, filter()
\* has completed; nothing else can complete it later.
C2_FilterCompletes ==
    (doNSLookup /\ insp.pc # "idle" /\ Drained /\ Settled(insp.lookups))
        => insp.pc \in {"filtered", "done"}

\* C3: with lookups on, once every lookup of recursiveLookup's batch has
\* settled and the microtasks have run, getReview has returned, and an IP
\* whose lookup failed is rendered with "null" for its hostname.
C3_ReviewReturns ==
    /\ (doNSLookup /\ Aggregated /\ Drained /\ Settled(fp.lookups))
            => fp.pc = "done"
    /\ (doNSLookup /\ fp.pc = "done") =>
            \A g \in 1..Len(fp.breakdown) :
                LET rows == fp.breakdown[g].ipBreakdown.rows
                IN \A i \in 1..Len(rows) :
                    (\E k \in 1..Len(fp.lookups) :
                        /\ fp.lookups[k].ip = rows[i].ip
                        /\ fp.lookups[k].state = "rejected")
                    => rows[i].hostname = "null"

\* Number of dns.reverse calls in a log of calls that are for ip.
CountIn(log, ip) == Cardinality({i \in 1..Len(log) : log[i] = ip})

\* C4: once the cache holds the failure marker for an IP, no step issues
\* another dns.reverse call for that IP.
C4_NoCallAfterFailure ==
    [][\A ip \in IPs :
        CacheGet(ip) = JSNull => CountIn(dnsCalls', ip) = CountIn(dnsCalls, ip)]_vars

\* C5: with lookups off, nsLookup and dns.reverse are never called, every
\* profile's nsLookup is "no-lookup", and every IP row of the false-positive
\* breakdown shows "no-lookup".
C5_NoLookup ==
    ~doNSLookup =>
        /\ dnsCalls = <<>> /\ dnsPending = {} /\ collected = {}
        /\ insp.lookups = <<>> /\ fp.lookups = <<>>
        /\ \A i \in 1..Len(insp.ips) : insp.ips[i].v.nsLookup = "no-lookup"
        /\ insp.pc = "done" =>
            \A g \in 1..Len(insp.report) : \A i \in 1..Len(insp.report[g].ips) :
                insp.report[g].ips[i].nsLookup = "no-lookup"
        /\ Rendered =>
            \A g \in 1..Len(fp.breakdown) :
                \A i \in 1..Len(fp.breakdown[g].ipBreakdown.rows) :
                    fp.breakdown[g].ipBreakdown.rows[i].hostname = "no-lookup"

\* Both reviews have run with lookups off, on records of two IPs.
C5_Witness ==
    /\ ~doNSLookup
    /\ insp.pc = "done" /\ Len(insp.ips) = 2 /\ Len(insp.report) > 0
    /\ fp.pc = "done" /\ Len(fp.breakdown) > 0

\* C6: when the overlay, the regrouping and the rendering run, every lookup
\* of the profile construction has settled and has been written to its
\* profile; the nsLookup a rendered row shows is the profile's, then and in
\* every later state.
C6_Barrier ==
    /\ insp.pc \in {"filtered", "done"} =>
        /\ Settled(insp.lookups)
        /\ \A c \in dnsPending : c.run # "insp"
        /\ \A j \in 1..Len(jobs) : ~(jobs[j].run = "insp" /\ jobs[j].type = "thenSet")
        /\ \A k \in 1..Len(insp.lookups) :
            MapGet(insp.ips, insp.lookups[k].ip).nsLookup = insp.lookups[k].value
    /\ insp.pc = "done" =>
        \A g \in 1..Len(insp.report) : \A i \in 1..Len(insp.report[g].ips) :
            insp.report[g].ips[i].nsLookup
                = MapGet(insp.ips, insp.report[g].ips[i].ip).nsLookup

\* An inspection rendered after two lookups, the second answered first.
C6_Witness ==
    /\ doNSLookup /\ insp.pc = "done"
    /\ Len(insp.lookups) = 2 /\ insp.reordered
    /\ Len(insp.report) > 0

\* The reports as they are when every lookup is answered at once: nothing
\* in them refers to the order of the answers.
ExpectedProfiles ==
    LET P == GatherProfiles(ruleErrors, TRUE)
    IN [i \in 1..Len(P) |-> [P[i] EXCEPT !.v.nsLookup = HostOf(P[i].k)]]

ExpectedInspection ==
    LET P == filterNormalLogs(ExpectedProfiles, normalLogs)
    IN RenderInspection(filterErrorLogs(P, ruleErrors), P)

ExpectedBreakdown ==
    LET order == LookupOrder(FPFilter(ruleErrors))
        answered == [k \in 1..Len(order) |->
                        [ip |-> order[k], state |-> "fulfilled",
                         value |-> HostOf(order[k])]]
    IN getBreakdown(FPFilter(ruleErrors),
                    [defined |-> TRUE, map |-> LookupCollection(answered)])

\* C7: with lookups on and each IP's lookup result fixed, a report that is
\* produced is the same whatever the order in which the lookups completed:
\* rule groups, IPs within a rule and the hostname of each IP.
C7_OrderIndependent ==
    doNSLookup =>
        /\ insp.pc = "done" => insp.report = ExpectedInspection
        /\ fp.pc = "done" => fp.breakdown = ExpectedBreakdown

\* Both reports produced after lookups that completed out of order.
C7_Witness ==
    /\ doNSLookup
    /\ insp.pc = "done" /\ insp.reordered
    /\ fp.pc = "done" /\ fp.reordered

(***************************************************************************)
(* SpecAgg: reviewFalsePositives without lookups on records that differ in *)
(* rule id, IP, payload and date.                                          *)
(***************************************************************************)
AggRuleErrorRecords == [id : RuleIds, ip : IPs, data : {1, 2}, date : {1, 2}]

\* One record more than Spec takes, so that a key can occur three times.
MaxAggErrors == MaxErrors + 1

ParseAggRuleError(r) ==
    /\ Len(ruleErrors) < MaxAggErrors
    /\ ParseRuleErrorWide(r)

NextAgg ==
    \/ \E r \in AggRuleErrorRecords : ParseAggRuleError(r)
    \/ StartFP
    \/ FPGetBreakdown
    \/ FPReviewDone

SpecAgg == InitRank /\ [][NextAgg]_vars /\ WF_vars(NextAgg)

\* Indices of the input records of a rule with a payload.
RecordsOfData(id, data) == {i \in RecordsOf(id) : ruleErrors[i].data = data}

\* C11: the date kept in a payload entry of a rule group is the latest date
\* among the input records with that rule id and that payload.
C11_LastSeenIsLatest ==
    Aggregated =>
        \A g \in 1..Len(fp.errors) :
            LET du == fp.errors[g].v.dataUsed
            IN \A d \in 1..Len(du) :
                du[d].v.date =
                    Max({ruleErrors[i].date :
                            i \in RecordsOfData(fp.errors[g].k, du[d].k)})

\* C12: a false-positive review of zero records fails with EmptyInputError
\* before any aggregation.
C12_EmptyInputError ==
    (fp.pc # "idle" /\ ruleErrors = <<>>) =>
        /\ fp.pc = "threw"
        /\ fp.error = "EmptyInputError"
        /\ fp.errors = <<>>

\* C15: in each rule group the hit count of an IP entry is the number of
\* input records with that rule id and IP, and the hit count of a payload
\* entry is the number of input records with that rule id and payload.
C15_EntryHitsCountRecords ==
    Aggregated =>
        \A g \in 1..Len(fp.errors) :
            LET id == fp.errors[g].k
                il == fp.errors[g].v.ipList
                du == fp.errors[g].v.dataUsed
            IN /\ \A i \in 1..Len(il) :
                    il[i].v.hits = Cardinality(RecordsOfIP(id, il[i].k))
               /\ \A d \in 1..Len(du) :
                    du[d].v.hits = Cardinality(RecordsOfData(id, du[d].k))

\* A group where one IP sent one payload twice and another payload once.
C15_Witness ==
    /\ Aggregated
    /\ \E g \in 1..Len(fp.errors) :
        LET il == fp.errors[g].v.ipList
            du == fp.errors[g].v.dataUsed
        IN /\ \E i \in 1..Len(il) : il[i].v.hits = 3
           /\ \E d \in 1..Len(du) : du[d].v.hits = 2
           /\ \E d \in 1..Len(du) : du[d].v.hits = 1

(***************************************************************************)
(* SpecCorrelate: reviewEntireLog without lookups on normal-log records    *)
(* that differ in IP, status code and user-agent.                          *)
(***************************************************************************)
CorNormalLogRecords ==
    [ip : IPs, statusCode : {"200", "403"}, useragent : {"", "a", "b"},
     date : {[clock |-> 1, zone |-> "+0000"]}]

\* One record more than Spec takes, so that an IP can make two requests.
MaxCorNormal == MaxNormal + 1

ParseNormalLogWide(n) ==
    /\ Idle /\ NotStarted
    /\ normalLogs' = Append(normalLogs, n)
    /\ UNCHANGED <<IssueVars, ruleErrors, doNSLookup, rejectionMode, proc, unhandled,
                   collected, dnsPending, dnsCalls, answers, jobs, fp, insp>>

ParseCorNormalLog(n) ==
    /\ Len(normalLogs) < MaxCorNormal
    /\ ParseNormalLogWide(n)

NextCorrelate ==
    \/ \E r \in RuleErrorRecords : ParseAggRuleError(r)
    \/ \E n \in CorNormalLogRecords : ParseCorNormalLog(n)
    \/ StartInspect
    \/ InspAllThen
    \/ InspFilterCont
    \/ InspReviewCont

SpecCorrelate == InitRank /\ [][NextCorrelate]_vars /\ WF_vars(NextCorrelate)

\* The profiles exist; the overlay and the regrouping have run.
Gathered == insp.pc # "idle"
Correlated == insp.pc \in {"filtered", "done"}

\* The IPs of the rule-error input.
RuleIPs == {ruleErrors[i].ip : i \in 1..Len(ruleErrors)}

\* C14: each profile's brokenRules is the subsequence, in input order, of
\* the rule-error records with the profile's IP, whatever their rule id.
C14_BrokenRulesAreTheRecords ==
    Gathered =>
        \A i \in 1..Len(insp.ips) :
            /\ insp.ips[i].v.ip = insp.ips[i].k
            /\ insp.ips[i].v.brokenRules
                = SelectSeq(ruleErrors, LAMBDA r : r.ip = insp.ips[i].k)

\* A profile with records of two rules, beside a second profile.
C14_Witness ==
    /\ Correlated /\ Len(insp.ips) = 2
    /\ \E i \in 1..Len(insp.ips) :
        LET br == insp.ips[i].v.brokenRules
        IN Len(br) = 2 /\ br[1].id # br[2].id

\* C16: the IPs with a profile are exactly the IPs of the rule-error input,
\* and the profiles are what they are without the normal-log records of
\* other IPs; such records make the run fail at no point.
C16_OnlyRuleIPsHaveProfiles ==
    /\ Gathered => {insp.ips[i].k : i \in 1..Len(insp.ips)} = RuleIPs
    /\ Correlated =>
        insp.ips = filterNormalLogs(GatherProfiles(ruleErrors, doNSLookup),
                        SelectSeq(normalLogs, LAMBDA n : n.ip \in RuleIPs))
    /\ (Gathered /\ jobs = <<>>) => insp.pc = "done"

\* A correlation of a normal log that holds a request of an IP that broke
\* no rule, beside a request of one that did.
C16_Witness ==
    /\ insp.pc = "done" /\ ruleErrors # <<>>
    /\ \E i \in 1..Len(normalLogs) : normalLogs[i].ip \notin RuleIPs
    /\ \E i \in 1..Len(normalLogs) : normalLogs[i].ip \in RuleIPs

\* C17: after the overlay a profile's allActivities is the subsequence of
\* the normal-log records with its IP, and its rejectedRequests is the
\* subsequence of those whose status code is not "200".
C17_ActivitiesAndRejects ==
    Correlated =>
        \A i \in 1..Len(insp.ips) :
            LET p == insp.ips[i].v
            IN /\ p.allActivities
                    = SelectSeq(normalLogs, LAMBDA n : n.ip = p.ip)
               /\ p.rejectedRequests
                    = SelectSeq(normalLogs,
                        LAMBDA n : n.ip = p.ip /\ n.statusCode # "200")

\* A profile with a served request and a rejected one.
C17_Witness ==
    /\ Correlated
    /\ \E i \in 1..Len(insp.ips) :
        /\ Len(insp.ips[i].v.allActivities) = 2
        /\ Len(insp.ips[i].v.rejectedRequests) = 1

\* The normal-log records of an IP that carry a user-agent.
AgentsOf(ip) == SelectSeq(normalLogs, LAMBDA n : n.ip = ip /\ n.useragent # "")

\* C18: a profile's user-agent is that of the first normal-log record with
\* its IP and a non-empty user-agent, and is empty if there is none.
C18_FirstUserAgent ==
    Correlated =>
        \A i \in 1..Len(insp.ips) :
            insp.ips[i].v.useragent =
                IF AgentsOf(insp.ips[i].k) = <<>> THEN ""
                ELSE AgentsOf(insp.ips[i].k)[1].useragent

\* A profile whose IP sent two different user-agents, and one whose first
\* request carried none.
C18_Witness ==
    /\ Correlated
    /\ \E i \in 1..Len(insp.ips) :
        LET a == insp.ips[i].v.allActivities
        IN /\ Len(a) = 2
           /\ \/ a[1].useragent = "a" /\ a[2].useragent = "b"
              \/ a[1].useragent = "" /\ a[2].useragent = "b"

\* Position of the first rule-error record with a rule id and an IP.
FirstRecord(id, ip) == FirstOf(RecordsOfIP(id, ip))

\* C19: in the rule index the IP list of a rule id holds no IP twice, holds
\* exactly the IPs with a record of that rule, in the order of their first
\* record of that rule; every profile keeps all its broken-rule entries.
C19_RuleIndex ==
    Correlated =>
        /\ \A g \in 1..Len(insp.filtered) :
            LET id == insp.filtered[g].k
                l == insp.filtered[g].v.ips
            IN /\ \A i, j \in 1..Len(l) : l[i] = l[j] => i = j
               /\ {l[i] : i \in 1..Len(l)}
                    = {ip \in IPs : RecordsOfIP(id, ip) # {}}
               /\ \A i, j \in 1..Len(l) :
                    i < j => FirstRecord(id, l[i]) < FirstRecord(id, l[j])
        /\ \A i \in 1..Len(insp.ips) :
            Len(insp.ips[i].v.brokenRules)
                = Cardinality({k \in 1..Len(ruleErrors) :
                                    ruleErrors[k].ip = insp.ips[i].k})

\* A rule broken twice by one IP and once by another.
C19_Witness ==
    /\ Correlated
    /\ \E g \in 1..Len(insp.filtered) :
        /\ Len(insp.filtered[g].v.ips) = 2
        /\ Cardinality(RecordsOf(insp.filtered[g].k)) = 3

(***************************************************************************)
(* SpecWindow: reviewEntireLog without lookups on records of one IP that   *)
(* differ in date.                                                         *)
(***************************************************************************)
WinRuleErrorRecords == [id : RuleIds, ip : {1}, data : {1}, date : {1, 3}]

WinNormalLogRecords ==
    [ip : {1}, statusCode : {"200", "403"}, useragent : {"ua"},
     date : [clock : 0..3, zone : {"+0000"}]]

NextWindow ==
    \/ \E r \in WinRuleErrorRecords : ParseAggRuleError(r)
    \/ \E n \in WinNormalLogRecords : ParseCorNormalLog(n)
    \/ StartInspect
    \/ InspAllThen
    \/ InspFilterCont
    \/ InspReviewCont

SpecWindow == InitRank /\ [][NextWindow]_vars /\ WF_vars(NextWindow)

LastOf(S) == CHOOSE i \in S : \A j \in S : j <= i

\* The rejected requests of an IP whose time is within the first and the
\* last record of a rule from that IP, in input order.
InWindow(id, ip) ==
    LET start == ruleErrors[FirstOf(RecordsOfIP(id, ip))].date
        end == ruleErrors[LastOf(RecordsOfIP(id, ip))].date
        in == SelectSeq(normalLogs,
                LAMBDA n : /\ n.ip = ip /\ n.statusCode # "200"
                           /\ start <= n.date.clock /\ n.date.clock <= end)
    IN [i \in 1..Len(in) |->
            [date |-> in[i].date.clock, statusCode |-> in[i].statusCode]]

ModSecErrorRecords ==
    [type : {"rule", "proxy", "ssl"}, hostname : {Undefined, "", "h1", "h2"},
     date : {1}, msg : {"m"}]

ParseModSecError(e) ==
    /\ Idle /\ iss.pc = "idle" /\ iss.reviews = <<>>
    /\ Len(modSecErrors) < MaxAggErrors
    /\ modSecErrors' = Append(modSecErrors, e)
    /\ UNCHANGED <<InputVars, DnsVars, proc, unhandled, jobs, fp, insp, iss>>

\* reviewIssues(errors): new IssueReviewer(errors).getReview(), synchronous.
ReviewIssues ==
    /\ Idle /\ iss.pc = "idle"
    /\ iss' = [pc |-> "done",
               filtered |-> IssueReviewerFilter(modSecErrors),
               review |-> IssueReviewerGetReview(IssueReviewerFilter(modSecErrors)),
               reviews |-> iss.reviews]
    /\ UNCHANGED <<InputVars, DnsVars, proc, unhandled, jobs, fp, insp,
                   modSecErrors>>

NextIssues ==
    \/ \E e \in ModSecErrorRecords : ParseModSecError(e)
    \/ ReviewIssues

SpecIssues == InitRank /\ [][NextIssues]_vars /\ WF_vars(NextIssues)

\* C20: the issues the classifier returns are exactly the input records
\* whose type is not "rule", in their input order.
C20_IssuesAreTheNonRuleRecords ==
    iss.pc = "done" =>
        iss.filtered.issues = SelectSeq(modSecErrors, LAMBDA e : e.type # "rule")

\* A proxy error, a rule error and an ssl error, classified.
C20_Witness ==
    /\ iss.pc = "done"
    /\ Len(modSecErrors) = 3
    /\ modSecErrors[1].type = "proxy" /\ modSecErrors[2].type = "rule"
    /\ modSecErrors[3].type = "ssl"
    /\ Len(iss.filtered.issues) = 2

\* The rule errors of the input that carry a non-empty hostname.
HostedRules ==
    SelectSeq(modSecErrors, LAMBDA e : e.type = "rule" /\ Truthy(e.hostname))

\* C21: the hostname the classifier returns is that of the first rule error
\* with a non-empty hostname, and the empty string if there is none; no
\* later record and no record of another type changes it.
C21_HostnameOfFirstRule ==
    iss.pc = "done" =>
        /\ iss.filtered.hostname =
                IF HostedRules = <<>> THEN "" ELSE HostedRules[1].hostname
        /\ iss.review.hostname = iss.filtered.hostname

\* A proxy error with a hostname, then two rule errors with different ones.
C21_Witness ==
    /\ iss.pc = "done"
    /\ Len(modSecErrors) = 3
    /\ modSecErrors[1].type = "proxy" /\ modSecErrors[1].hostname = "h2"
    /\ modSecErrors[2].type = "rule" /\ modSecErrors[2].hostname = "h1"
    /\ modSecErrors[3].type = "rule" /\ modSecErrors[3].hostname = "h2"
    /\ iss.filtered.hostname = "h1"

FPAgain ==
    /\ Idle /\ fp.pc = "done" /\ fp.reviews = <<>>
    /\ fp' = [fp EXCEPT !.pc = "idle",
                        !.reviews = <<[overview |-> fp.overview,
                                       breakdown |-> fp.breakdown]>>]
    /\ UNCHANGED <<IssueVars, InputVars, DnsVars, proc, unhandled, jobs, insp>>

InspAgain ==
    /\ Idle /\ insp.pc = "done" /\ insp.reviews = <<>>
    /\ insp' = [insp EXCEPT !.pc = "idle", !.reviews = <<insp.report>>]
    /\ UNCHANGED <<IssueVars, InputVars, DnsVars, proc, unhandled, jobs, fp>>

IssAgain ==
    /\ Idle /\ iss.pc = "done" /\ iss.reviews = <<>>
    /\ iss' = [iss EXCEPT !.pc = "idle", !.reviews = <<iss.review>>]
    /\ UNCHANGED <<InputVars, DnsVars, proc, unhandled, jobs, fp, insp,
                   modSecErrors>>

TwiceModSecErrorRecords ==
    [type : {"rule", "proxy"}, hostname : {"h1"}, date : {1}, msg : {"m"}]

ParseTwiceModSecError(e) ==
    /\ Len(modSecErrors) < MaxErrors
    /\ ParseModSecError(e)

NextTwice ==
    \/ \E r \in RuleErrorRecords : ParseRuleError(r)
    \/ \E n \in NormalLogRecords : ParseNormalLog(n)
    \/ \E e \in TwiceModSecErrorRecords : ParseTwiceModSecError(e)
    \/ StartFP
    \/ FPGetBreakdown
    \/ FPReviewDone
    \/ FPAgain
    \/ StartInspect
    \/ InspAllThen
    \/ InspFilterCont
    \/ InspReviewCont
    \/ InspAgain
    \/ ReviewIssues
    \/ IssAgain

SpecTwice == InitRank /\ [][NextTwice]_vars /\ WF_vars(NextTwice)

C24_NoDuplicateInFlight ==
    \A c, d \in dnsPending : c.ip = d.ip => c = d

\* dns.reverse has answered with a hostname for ip at some point.
Succeeded(ip) == <<ip, HostOf(ip)>> \in answers

\* C25: once a reverse lookup for an IP has succeeded no later step issues
\* another dns.reverse call for it, and a review that starts its lookups
\* afterwards has the promise for that IP fulfilled with the hostname.
C25_CachedSuccessServes ==
    [][\A ip \in IPs :
        Succeeded(ip) =>
            /\ CountIn(dnsCalls', ip) = CountIn(dnsCalls, ip)
            /\ (fp.lookups = <<>> /\ fp'.lookups # <<>>) =>
                    \A k \in 1..Len(fp'.lookups) :
                        fp'.lookups[k].ip = ip =>
                            /\ fp'.lookups[k].state = "fulfilled"
                            /\ fp'.lookups[k].value = HostOf(ip)
            /\ (insp.lookups = <<>> /\ insp'.lookups # <<>>) =>
                    \A k \in 1..Len(insp'.lookups) :
                        insp'.lookups[k].ip = ip =>
                            /\ insp'.lookups[k].state = "fulfilled"
                            /\ insp'.lookups[k].value = HostOf(ip)]_vars

\* C27: once the cache holds a hostname for an IP no step replaces the
\* entry, neither by the failure marker nor by another value.
C27_CachedHostnameIsFinal ==
    [][\A ip \in IPs :
        Truthy(CacheGet(ip)) =>
            \A e \in collected' : e[1] = ip => e[2] = CacheGet(ip)]_vars

(***************************************************************************)
(* SpecLong: reviewEntireLog without lookups on a long error log of one    *)
(* IP, where a rule has more records than the activity breakdown renders.  *)
(* The log is chronological: the k-th record has time k and payload k.     *)
(***************************************************************************)
\* Two records more than the breakdown of a rule renders.
MaxLong == RuleLastIndex + 3

\* The next line of the error log, of either rule.
ParseLongRuleError(id) ==
    /\ Len(ruleErrors) < MaxLong
    /\ ParseRuleErrorWide([id |-> id, ip |-> 1,
                           data |-> Len(ruleErrors) + 1,
                           date |-> Len(ruleErrors) + 1])

\* Rejected requests of the IP at the time of the tenth line and later.
LongNormalLogRecords ==
    [ip : {1}, statusCode : {"403"}, useragent : {"ua"},
     date : [clock : (RuleLastIndex + 1)..(MaxLong + 1), zone : {"+0000"}]]

NextLong ==
    \/ \E id \in RuleIds : ParseLongRuleError(id)
    \/ \E n \in LongNormalLogRecords : ParseNormalLog(n)
    \/ StartInspect
    \/ InspAllThen
    \/ InspFilterCont
    \/ InspReviewCont

SpecLong == InitRank /\ [][NextLong]_vars /\ WF_vars(NextLong)

\* The input records of a rule from an IP, in input order.
OwnRecords(id, ip) ==
    SelectSeq(ruleErrors, LAMBDA r : r.id = id /\ r.ip = ip)

C28_HeadersMatchRows ==
    Rendered =>
        \A g \in 1..Len(fp.breakdown) :
            LET id == fp.breakdown[g].id
                ipB == fp.breakdown[g].ipBreakdown
                dataB == fp.breakdown[g].dataBreakdown
            IN /\ ipB.n = Cardinality({ruleErrors[i].ip : i \in RecordsOf(id)})
               /\ dataB.n = Cardinality({ruleErrors[i].data : i \in RecordsOf(id)})
               /\ ipB.top <=> Len(ipB.rows) = 10
               /\ dataB.top <=> Len(dataB.rows) = 10
               /\ ~ipB.top => Len(ipB.rows) = ipB.n
               /\ ~dataB.top => Len(dataB.rows) = dataB.n

\* The hit counts of the entries of a Map, added up.
SumHits(map) ==
    LET S[i \in 0..Len(map)] == IF i = 0 THEN 0 ELSE S[i - 1] + map[i].v.hits
    IN S[Len(map)]

\* C29: a rule group is consistent in itself: its hit count is the sum of
\* the hit counts of its IP entries and the sum of the hit counts of its
\* payload entries; every IP entry lists as many payloads as it has hits,
\* and every payload entry lists as many IPs as it has hits.
C29_GroupConsistent ==
    Aggregated =>
        \A g \in 1..Len(fp.errors) :
            LET oe == fp.errors[g].v
            IN /\ oe.hits = SumHits(oe.ipList)
               /\ oe.hits = SumHits(oe.dataUsed)
               /\ \A i \in 1..Len(oe.ipList) :
                    Len(oe.ipList[i].v.dataUsed) = oe.ipList[i].v.hits
               /\ \A d \in 1..Len(oe.dataUsed) :
                    Len(oe.dataUsed[d].v.ipList) = oe.dataUsed[d].v.hits

(***************************************************************************)
(* SpecBoth: reviewFalsePositives and reviewEntireLog on the same error    *)
(* log, without lookups.                                                   *)
(***************************************************************************)
\* Two records more than Spec takes: two rules, and in one of them an IP
\* that comes twice and another one.
MaxBothErrors == MaxErrors + 2

ParseBothRuleError(r) ==
    /\ Len(ruleErrors) < MaxBothErrors
    /\ ParseRuleErrorWide(r)

NextBoth ==
    \/ \E r \in RuleErrorRecords : ParseBothRuleError(r)
    \/ StartFP
    \/ FPGetBreakdown
    \/ FPReviewDone
    \/ StartInspect
    \/ InspAllThen
    \/ InspFilterCont
    \/ InspReviewCont

SpecBoth == InitRank /\ [][NextBoth]_vars /\ WF_vars(NextBoth)

\* C30: on the same rule-error input the aggregator and the correlator have
\* the same rule ids in the same order, that of first occurrence, and for
\* each rule id the aggregator's ipList has as many entries as the
\* correlator's ips array, for the same IPs.
C30_AggregatorCorrelatorAgree ==
    (Aggregated /\ Correlated) =>
        /\ MapKeys(fp.errors) = MapKeys(insp.filtered)
        /\ \A g \in 1..Len(fp.errors) :
                LET ipList == fp.errors[g].v.ipList
                    ips == insp.filtered[g].v.ips
                IN /\ Len(ipList) = Len(ips)
                   /\ {ipList[i].k : i \in 1..Len(ipList)}
                        = {ips[i] : i \in 1..Len(ips)}

\* Both have run on a log with two rules, one of them with two IPs, one of
\* which comes twice.
C30_Witness ==
    /\ Aggregated /\ Correlated
    /\ Len(fp.errors) = 2
    /\ \E g \in 1..Len(fp.errors) :
        /\ Len(insp.filtered[g].v.ips) = 2
        /\ \E i \in 1..Len(fp.errors[g].v.ipList) :
                fp.errors[g].v.ipList[i].v.hits = 2
====
